---- MODULE Spec2Model ----
(***************************************************************************)
(* Attendance session and salary engine of demo-backend.                   *)
(*                                                                         *)
(* Two stores are modelled: the Session Ledger (collection ActiveSession)  *)
(* and the Day Records (collection Attendance, unique on (userId, date)).  *)
(* One employee is modelled; a Day Record is identified by its date.       *)
(*                                                                         *)
(* Time.  `today` is the calendar day and `now` the second of that day.    *)
(* "HH:MM" strings are minutes of the day (now \div 60).  The strings made *)
(* by toLocaleTimeString ("5:05:00 PM") are kept apart from "HH:MM" ones   *)
(* by LocaleBase, because calculateHoursWorked reads them differently.     *)
(* The server's time zone is taken to be UTC, so that the date of          *)
(* toISOString and the time of toTimeString belong to the same day.        *)
(*                                                                         *)
(* Numbers.  Hours are integers counting 1/90000 hour, so that a whole     *)
(* number of seconds (25 units each), a value rounded to 4 decimals        *)
(* (9 units per 0.0001) and one rounded to 2 decimals are all exact.       *)
(* Money is in the same scale: hours units times an integer rate.          *)
(***************************************************************************)
EXTENDS Integers, Sequences, FiniteSets, TLC

VARIABLES
  now,      \* second of the day of the clock (new Date())
  today,    \* calendar day of the clock
  rate,     \* User.hourlyRate of the employee
  ledger,   \* sequence of ActiveSession documents, in insertion order
  att,      \* Attendance document of each date, or NoRec
  last,     \* the last request served: entry point, HTTP status, what it found
  req       \* the in-flight startSession requests of the interleaved runs

vars == <<now, today, rate, ledger, att, last, req>>

(***************************************************************************)
(* Bounds                                                                  *)
(***************************************************************************)
MaxSessions == 2   \* ledger documents, and sessions of one Day Record
MaxDay == 2        \* calendar days
MaxReq == 2        \* startSession requests in flight at once

\* 08:59:00, 09:05:20 and 17:05:10 as seconds of the day
Times == {32340, 32720, 61510}
Rates == {0, 20}
Days == 1..MaxDay
Statuses == {"present", "absent", "leave", "late"}

(***************************************************************************)
(* Values                                                                  *)
(***************************************************************************)
NoTime == -1            \* null check-in / check-out string
LocaleBase == 10000     \* tag of a toLocaleTimeString string
NoRec == [status |-> "norecord"]
NoLast == [ep |-> "none", code |-> 0, pre |-> "none"]

HHMM(t) == t \div 60                 \* toTimeString().substring(0, 5)
LocaleString(t) == LocaleBase + (t \div 60)   \* toLocaleTimeString()

\* Math.round(n / d) for n >= 0, d > 0
Round(n, d) == (2 * n + d) \div (2 * d)

\* Math.round(x * 10000) / 10000 and Math.round(x * 100) / 100 on hours units
Round4(x) == 9 * Round(x, 9)
Round2(x) == 900 * Round(x, 900)

\* (end - start) / (1000 * 60 * 60) for two instants sec seconds apart
ElapsedHours(sec) == 25 * sec

\* the [hour, minute] that split(':').map(Number) reads from a time string:
\* a locale string keeps its 12-hour clock hour and loses AM/PM
ParseMinutes(s) ==
  IF s >= LocaleBase
    THEN LET m == s - LocaleBase
             h == (m \div 60) % 12
         IN (IF h = 0 THEN 12 ELSE h) * 60 + (m % 60)
    ELSE s

\* calculateHoursWorked without the step over midnight
calculateHoursWorked_NoWrap(checkInTime, checkOutTime) ==
  IF checkInTime = NoTime \/ checkOutTime = NoTime
    THEN 0
    ELSE Round4(1500 * (ParseMinutes(checkOutTime) - ParseMinutes(checkInTime)))

calculateHoursWorked(checkInTime, checkOutTime) ==
  IF checkInTime = NoTime \/ checkOutTime = NoTime
    THEN 0
    ELSE LET d == ParseMinutes(checkOutTime) - ParseMinutes(checkInTime)
             totalMinutes == IF d < 0 THEN d + 24 * 60 ELSE d
         IN Round4(1500 * totalMinutes)

calculateDailySalary(hoursWorked, hourlyRate, status) ==
  IF status = "present" \/ status = "late"
    THEN Round4(hoursWorked * hourlyRate)
    ELSE 0

RECURSIVE SumOver(_, _)
SumOver(f, n) == IF n = 0 THEN 0 ELSE f[n] + SumOver(f, n - 1)

SumHours(ss) == SumOver([i \in 1..Len(ss) |-> ss[i].sessionHours], Len(ss))
SumSalary(ss) == SumOver([i \in 1..Len(ss) |-> ss[i].sessionSalary], Len(ss))

\* sessions.findIndex(s => s.isActive), 0 for -1
FirstActive(ss) ==
  IF \E i \in 1..Len(ss) : ss[i].isActive
    THEN CHOOSE i \in 1..Len(ss) :
           ss[i].isActive /\ \A j \in 1..(i - 1) : ~ss[j].isActive
    ELSE 0

\* ActiveSession.findOne({userId, date, isActive: true}), 0 for null
FindActive(l, d) ==
  IF \E i \in 1..Len(l) : l[i].date = d /\ l[i].isActive
    THEN CHOOSE i \in 1..Len(l) :
           /\ l[i].date = d /\ l[i].isActive
           /\ \A j \in 1..(i - 1) : ~(l[j].date = d /\ l[j].isActive)
    ELSE 0

\* an element of the sessions array with the schema's defaults
NewSession(checkIn, checkOut, active) ==
  [checkInTime |-> checkIn, checkOutTime |-> checkOut,
   sessionHours |-> 0, sessionSalary |-> 0, isActive |-> active]

\* new Attendance({...}) with the schema's defaults.  createdStatus is a
\* history field, not a field of the schema: it keeps the status the record
\* is created with, and no handler reads or writes it.
NewAttendance(st, ss, checkIn, checkOut, active) ==
  [status |-> st, sessions |-> ss, checkInTime |-> checkIn,
   checkOutTime |-> checkOut, totalHours |-> 0, hourlyRate |-> 0,
   dailySalary |-> 0, isLate |-> FALSE, lateMinutes |-> 0,
   originalStatus |-> "null", isActive |-> active, forceStopped |-> FALSE,
   createdStatus |-> st]

\* new ActiveSession({...})
NewActiveSession(d, t) ==
  [date |-> d, checkInTime |-> t, isActive |-> TRUE, totalHours |-> 0,
   forceStopped |-> FALSE]

(***************************************************************************)
(* AttendanceSchema.pre('save'): a is the document being saved, r the      *)
(* owner's hourly rate, t the clock.                                       *)
(***************************************************************************)
PreSaveSession(s, r, st, t) ==
  IF s.checkOutTime # NoTime
    THEN LET h == calculateHoursWorked(s.checkInTime, s.checkOutTime)
         IN [s EXCEPT !.sessionHours = h,
                      !.sessionSalary = calculateDailySalary(h, r, st),
                      !.isActive = FALSE]
    ELSE LET h == calculateHoursWorked(s.checkInTime, HHMM(t))
         IN [s EXCEPT !.sessionHours = h,
                      !.sessionSalary = calculateDailySalary(h, r, st),
                      !.isActive = TRUE]

\* PreSave adding the sessions' hours to the stored total instead of replacing it
PreSave_Accumulate(a, r, t) ==
  IF r > 0
    THEN LET ss == [i \in 1..Len(a.sessions) |->
                      PreSaveSession(a.sessions[i], r, a.status, t)]
             b == [a EXCEPT !.hourlyRate = r,
                            !.sessions = ss,
                            !.totalHours = Round4(a.totalHours + SumHours(ss)),
                            !.dailySalary = Round4(SumSalary(ss))]
         IN IF Len(ss) > 0
              THEN [b EXCEPT !.checkInTime = ss[1].checkInTime,
                             !.checkOutTime = ss[Len(ss)].checkOutTime,
                             !.isActive = \E i \in 1..Len(ss) : ss[i].isActive]
              ELSE b
    ELSE [a EXCEPT !.hourlyRate = 0, !.totalHours = 0,
                   !.dailySalary = 0, !.isActive = FALSE]

PreSave(a, r, t) ==
  IF r > 0
    THEN LET ss == [i \in 1..Len(a.sessions) |->
                      PreSaveSession(a.sessions[i], r, a.status, t)]
             b == [a EXCEPT !.hourlyRate = r,
                            !.sessions = ss,
                            !.totalHours = Round4(SumHours(ss)),
                            !.dailySalary = Round4(SumSalary(ss))]
         IN IF Len(ss) > 0
              THEN [b EXCEPT !.checkInTime = ss[1].checkInTime,
                             !.checkOutTime = ss[Len(ss)].checkOutTime,
                             !.isActive = \E i \in 1..Len(ss) : ss[i].isActive]
              ELSE b
    ELSE [a EXCEPT !.hourlyRate = 0, !.totalHours = 0,
                   !.dailySalary = 0, !.isActive = FALSE]

(***************************************************************************)
(* Initial state: empty stores                                             *)
(***************************************************************************)
Idle == [pc |-> "idle", day |-> 0, t |-> 0, doc |-> NoRec]

Init ==
  /\ now = 32340
  /\ today = 1
  /\ rate \in Rates
  /\ ledger = <<>>
  /\ att = [d \in Days |-> NoRec]
  /\ last = NoLast
  /\ req = [p \in 1..MaxReq |-> Idle]

\* res.status(code).json(...): pre tells whether the handler's lookup found an
\* active session ("active") or not ("none")
Reply(ep, code, pre) ==
  last' = [ep |-> ep, code |-> code, pre |-> pre]

(***************************************************************************)
(* The clock: time passes between requests                                 *)
(***************************************************************************)
Tick ==
  /\ \E t \in Times : t > now /\ now' = t
  /\ Reply("tick", 0, "none")
  /\ UNCHANGED <<today, rate, ledger, att, req>>

\* midnight passes: the next request is served on the following day
NextDay ==
  /\ today < MaxDay
  /\ today' = today + 1
  /\ now' \in Times
  /\ Reply("tick", 0, "none")
  /\ UNCHANGED <<rate, ledger, att, req>>

(***************************************************************************)
(* PUT /users/:id by an admin: the hourly rate changes                     *)
(***************************************************************************)
\* PUT /users/:id that also rewrites the stored rate of the user's Day Records
SetRate_Retroactive ==
  /\ \E r \in Rates : r # rate /\ rate' = r
  /\ att' = [d \in Days |-> IF att[d] = NoRec THEN NoRec
                            ELSE [att[d] EXCEPT !.hourlyRate = rate']]
  /\ Reply("users", 200, "none")
  /\ UNCHANGED <<now, today, ledger, req>>

SetRate ==
  /\ \E r \in Rates : r # rate /\ rate' = r
  /\ Reply("users", 200, "none")
  /\ UNCHANGED <<now, today, ledger, att, req>>

(***************************************************************************)
(* sessionController.startSession (POST /session/start)                    *)
(***************************************************************************)
\* the write half of startSession, used by the handler and by its mutant
StartSessionWrite ==
  /\ Len(ledger) < MaxSessions
  /\ att[today] # NoRec => Len(att[today].sessions) < MaxSessions
  /\ ledger' = Append(ledger, NewActiveSession(today, now))
  /\ LET s == NewSession(HHMM(now), NoTime, TRUE)
         a == IF att[today] = NoRec
                THEN NewAttendance("present", <<s>>, NoTime, NoTime, TRUE)
                ELSE [att[today] EXCEPT
                        !.sessions = Append(@, s), !.isActive = TRUE]
     IN att' = [att EXCEPT ![today] = PreSave(a, rate, now)]
  /\ Reply("startSession", 200, "none")
  /\ UNCHANGED <<now, today, rate, req>>

\* startSession without the lookup of an existing active session
StartSession_NoLookup == StartSessionWrite

StartSession ==
  LET ex == FindActive(ledger, today) IN
  IF ex # 0
    THEN /\ Reply("startSession", 200, "active")
         /\ UNCHANGED <<now, today, rate, ledger, att, req>>
    ELSE StartSessionWrite

(***************************************************************************)
(* sessionController.stopSession (POST /session/stop)                      *)
(***************************************************************************)
\* the ledger after stopSession has closed ledger document ex
StopLedger(ex) ==
  [ledger EXCEPT ![ex].isActive = FALSE,
                 ![ex].totalHours =
                    Round4(ElapsedHours(now - ledger[ex].checkInTime))]

\* the Day Records after stopSession has closed ledger document ex
StopAtt(ex) ==
  LET h == Round4(ElapsedHours(now - ledger[ex].checkInTime))
      a == att[today]
  IN IF a = NoRec
       THEN att
       ELSE LET i == FirstActive(a.sessions)
                b == IF i # 0
                       THEN [a EXCEPT
                               !.sessions[i].checkOutTime = HHMM(now),
                               !.sessions[i].isActive = FALSE,
                               !.sessions[i].sessionHours = h]
                       ELSE a
            IN [att EXCEPT ![today] = PreSave(b, rate, now)]

\* the write half of stopSession on ledger document ex
StopSessionWrite(ex) ==
  /\ ledger' = StopLedger(ex)
  /\ att' = StopAtt(ex)
  /\ Reply("stopSession", 200, "active")
  /\ UNCHANGED <<now, today, rate, req>>

\* stopSession whose lookup leaves out isActive: true, so that it finds and
\* closes again a session of today that is already closed
StopSession_AnySession ==
  IF \E i \in 1..Len(ledger) : ledger[i].date = today
    THEN StopSessionWrite(CHOOSE i \in 1..Len(ledger) : ledger[i].date = today)
    ELSE /\ Reply("stopSession", 200, "none")
         /\ UNCHANGED <<now, today, rate, ledger, att, req>>

StopSession ==
  LET ex == FindActive(ledger, today) IN
  IF ex = 0
    THEN /\ Reply("stopSession", 200, "none")
         /\ UNCHANGED <<now, today, rate, ledger, att, req>>
    ELSE StopSessionWrite(ex)

(***************************************************************************)
(* Requests that name no valid user.  "" is a missing userId, "xyz" a      *)
(* userId that is no ObjectId, "000000000000000000000000" a well-formed id  *)
(* of no user.                                                              *)
(***************************************************************************)
BadUserIds == {"", "xyz", "000000000000000000000000"}

IsValidObjectId(userId) == userId = "000000000000000000000000"

\* startSession with such a userId: each of the three checks answers with
\* res.json (status 200) and the message of a started session
StartSessionInvalid(userId) ==
  /\ userId \in BadUserIds
  /\ Reply("startSession", 200, "invalid")
  /\ UNCHANGED <<now, today, rate, ledger, att, req>>

\* stopSession with such a userId: the two format checks answer 200; a
\* well-formed id of no user passes them, finds no active session and gets
\* the answer of a stop with nothing to stop
StopSessionInvalid(userId) ==
  /\ userId \in BadUserIds
  /\ Reply("stopSession", 200, "invalid")
  /\ UNCHANGED <<now, today, rate, ledger, att, req>>

\* POST /sessions/start and /sessions/stop of the admin router with such a
\* userId: 400 when it is missing; start looks the user up (a malformed id
\* makes findById throw: 500; an unknown one: 404), stop does not and finds
\* no active session (a malformed id makes the lookup throw: 500)
RouteInvalid(ep, userId) ==
  /\ userId \in BadUserIds
  /\ ep \in {"sessions/start", "sessions/stop"}
  /\ IF userId = ""
       THEN Reply(ep, 400, "invalid")
       ELSE IF ~IsValidObjectId(userId)
         THEN Reply(ep, 500, "invalid")
         ELSE Reply(ep, 404, "invalid")
  /\ UNCHANGED <<now, today, rate, ledger, att, req>>

(***************************************************************************)
(* The read paths: getActiveSession of the controller, GET                 *)
(* /sessions/active/:userId of the admin router and GET /active of the     *)
(* user's sessions router.  Each looks for a ledger session of the user    *)
(* with date today and isActive true and answers 200 with hasActiveSession;*)
(* the third field of the reply carries that answer.  Nothing is written.  *)
(***************************************************************************)
ActiveEps == {"getActiveSession", "sessions/active", "user/active"}

\* the same lookup without the date filter
GetActive_AnyDate(ep) ==
  /\ ep \in ActiveEps
  /\ Reply(ep, 200, IF \E i \in 1..Len(ledger) : ledger[i].isActive
                      THEN "hasActive" ELSE "noActive")
  /\ UNCHANGED <<now, today, rate, ledger, att, req>>

GetActive(ep) ==
  /\ ep \in ActiveEps
  /\ Reply(ep, 200, IF FindActive(ledger, today) # 0
                      THEN "hasActive" ELSE "noActive")
  /\ UNCHANGED <<now, today, rate, ledger, att, req>>

\* with a userId that names no user: getActiveSession answers 400 to a
\* missing or malformed one; the admin route casts a malformed one in the
\* query, which throws (500); a well-formed id of no user finds no session
GetActiveInvalid(ep, userId) ==
  /\ userId \in BadUserIds
  /\ ep \in {"getActiveSession", "sessions/active"}
  /\ IF IsValidObjectId(userId)
       THEN Reply(ep, 200, "invalid")
       ELSE IF ep = "getActiveSession"
         THEN Reply(ep, 400, "invalid")
         ELSE Reply(ep, 500, "invalid")
  /\ UNCHANGED <<now, today, rate, ledger, att, req>>

(***************************************************************************)
(* POST /sessions/start of the admin router and POST /start of the user's  *)
(* sessions router: the same handler twice.  The Day Record is always      *)
(* built anew, without a sessions entry; the unique index (userId, date)   *)
(* rejects it (E11000, answered 500) when the day already has a record,    *)
(* after the ledger document was saved.                                    *)
(***************************************************************************)
RouteStart(ep) ==
  LET ex == FindActive(ledger, today) IN
  IF ex # 0
    THEN /\ Reply(ep, 400, "active")
         /\ UNCHANGED <<now, today, rate, ledger, att, req>>
    ELSE /\ Len(ledger) < MaxSessions
         /\ ledger' = Append(ledger, NewActiveSession(today, now))
         /\ IF att[today] = NoRec
              THEN /\ att' = [att EXCEPT ![today] =
                        PreSave(NewAttendance("present", <<>>, HHMM(now),
                                              NoTime, FALSE), rate, now)]
                   /\ Reply(ep, 200, "none")
              ELSE /\ att' = att
                   /\ Reply(ep, 500, "none")
         /\ UNCHANGED <<now, today, rate, req>>

(***************************************************************************)
(* POST /sessions/stop of the admin router                                 *)
(***************************************************************************)
SessionsStop ==
  LET ex == FindActive(ledger, today) IN
  IF ex = 0
    THEN /\ Reply("sessions/stop", 404, "none")
         /\ UNCHANGED <<now, today, rate, ledger, att, req>>
    ELSE LET h == Round2(ElapsedHours(now - ledger[ex].checkInTime))
             a == att[today]
         IN /\ ledger' = [ledger EXCEPT ![ex].isActive = FALSE,
                                        ![ex].totalHours = h]
            /\ IF a = NoRec
                 THEN att' = att
                 ELSE LET i == FirstActive(a.sessions)
                          b == IF i # 0
                                 THEN [a EXCEPT
                                         !.sessions[i].checkOutTime = HHMM(now),
                                         !.sessions[i].isActive = FALSE]
                                 ELSE a
                      IN att' = [att EXCEPT ![today] = PreSave(b, rate, now)]
            /\ Reply("sessions/stop", 200, "active")
            /\ UNCHANGED <<now, today, rate, req>>

(***************************************************************************)
(* POST /stop of the user's sessions router.  The handler reads `user`     *)
(* outside the block that declares it (line 128): once both stores are     *)
(* written it throws a ReferenceError and answers 500.                     *)
(***************************************************************************)
UserStop ==
  LET ex == FindActive(ledger, today) IN
  IF ex = 0
    THEN /\ Reply("user/stop", 404, "none")
         /\ UNCHANGED <<now, today, rate, ledger, att, req>>
    ELSE LET h == Round2(ElapsedHours(now - ledger[ex].checkInTime))
             a == att[today]
             hourlyRate == IF rate # 0 THEN rate ELSE 15
         IN /\ ledger' = [ledger EXCEPT ![ex].isActive = FALSE,
                                        ![ex].totalHours = h]
            /\ IF a = NoRec
                 THEN att' = att
                 ELSE att' = [att EXCEPT ![today] =
                        PreSave([a EXCEPT !.checkOutTime = HHMM(now),
                                          !.totalHours = h,
                                          !.dailySalary = h * hourlyRate],
                                rate, now)]
            /\ Reply("user/stop", 500, "active")
            /\ UNCHANGED <<now, today, rate, req>>

(***************************************************************************)
(* POST /admin-sessions/start: a ledger document only, no Day Record       *)
(***************************************************************************)
AdminSessionsStart ==
  LET ex == FindActive(ledger, today) IN
  IF ex # 0
    THEN /\ Reply("admin-sessions/start", 400, "active")
         /\ UNCHANGED <<now, today, rate, ledger, att, req>>
    ELSE /\ Len(ledger) < MaxSessions
         /\ ledger' = Append(ledger, NewActiveSession(today, now))
         /\ Reply("admin-sessions/start", 200, "none")
         /\ UNCHANGED <<now, today, rate, att, req>>

(***************************************************************************)
(* POST /admin-sessions/stop: closes the ledger document and appends a     *)
(* closed session, written with toLocaleTimeString, to the Day Record.     *)
(* The request carries no sessionDuration.                                 *)
(***************************************************************************)
AdminSessionsStop ==
  LET ex == FindActive(ledger, today) IN
  IF ex = 0
    THEN /\ Reply("admin-sessions/stop", 404, "none")
         /\ UNCHANGED <<now, today, rate, ledger, att, req>>
    ELSE LET hoursWorked == ElapsedHours(now - ledger[ex].checkInTime)
             s == NewSession(LocaleString(ledger[ex].checkInTime),
                             LocaleString(now), FALSE)
             a == att[today]
             b == IF a = NoRec
                    THEN [NewAttendance("present", <<s>>, s.checkInTime,
                                        s.checkOutTime, FALSE)
                            EXCEPT !.totalHours = hoursWorked,
                                   !.dailySalary = hoursWorked * rate]
                    ELSE [a EXCEPT !.totalHours = @ + hoursWorked,
                                   !.dailySalary = @ + hoursWorked * rate,
                                   !.checkOutTime = s.checkOutTime,
                                   !.sessions = Append(@, s)]
         IN /\ a # NoRec => Len(a.sessions) < MaxSessions
            /\ ledger' = [ledger EXCEPT ![ex].isActive = FALSE,
                                        ![ex].totalHours = hoursWorked,
                                        ![ex].forceStopped = TRUE]
            /\ att' = [att EXCEPT ![today] = PreSave(b, rate, now)]
            /\ Reply("admin-sessions/stop", 200, "active")
            /\ UNCHANGED <<now, today, rate, req>>

(***************************************************************************)
(* POST /attendance/checkin and /attendance/checkout: the Day Record only  *)
(***************************************************************************)
CheckIn ==
  LET a == IF att[today] = NoRec
             THEN NewAttendance("present", <<>>, NoTime, NoTime, FALSE)
             ELSE att[today]
  IN IF FirstActive(a.sessions) # 0
       THEN /\ Reply("checkin", 400, "active")
            /\ UNCHANGED <<now, today, rate, ledger, att, req>>
       ELSE /\ Len(a.sessions) < MaxSessions
            /\ att' = [att EXCEPT ![today] =
                 PreSave([a EXCEPT
                            !.sessions = Append(@, NewSession(HHMM(now), NoTime, TRUE)),
                            !.isActive = TRUE], rate, now)]
            /\ Reply("checkin", 200, "none")
            /\ UNCHANGED <<now, today, rate, ledger, req>>

\* a check-out that stamps every session of the record, closed ones included
CheckOut_AllSessions ==
  LET a == att[today] IN
  IF a = NoRec
    THEN /\ Reply("checkout", 404, "none")
         /\ UNCHANGED <<now, today, rate, ledger, att, req>>
    ELSE LET i == FirstActive(a.sessions) IN
         IF i = 0
           THEN /\ Reply("checkout", 400, "none")
                /\ UNCHANGED <<now, today, rate, ledger, att, req>>
           ELSE LET ss == [j \in 1..Len(a.sessions) |->
                             [a.sessions[j] EXCEPT !.checkOutTime = HHMM(now),
                                                   !.isActive = FALSE]]
                IN /\ att' = [att EXCEPT ![today] =
                        PreSave([a EXCEPT !.sessions = ss,
                                          !.isActive = FirstActive(ss) # 0],
                                rate, now)]
                   /\ Reply("checkout", 200, "active")
                   /\ UNCHANGED <<now, today, rate, ledger, req>>

CheckOut ==
  LET a == att[today] IN
  IF a = NoRec
    THEN /\ Reply("checkout", 404, "none")
         /\ UNCHANGED <<now, today, rate, ledger, att, req>>
    ELSE LET i == FirstActive(a.sessions) IN
         IF i = 0
           THEN /\ Reply("checkout", 400, "none")
                /\ UNCHANGED <<now, today, rate, ledger, att, req>>
           ELSE LET ss == [a.sessions EXCEPT ![i].checkOutTime = HHMM(now),
                                             ![i].isActive = FALSE]
                IN /\ att' = [att EXCEPT ![today] =
                        PreSave([a EXCEPT !.sessions = ss,
                                          !.isActive = FirstActive(ss) # 0],
                                rate, now)]
                   /\ Reply("checkout", 200, "active")
                   /\ UNCHANGED <<now, today, rate, ledger, req>>

(***************************************************************************)
(* POST /attendance/force-stop (by date) and /attendance/force-stop-by-id  *)
(* (by record): the same handler twice; d is the day of the target record. *)
(* The sessions sub-schema has no forceStopped fields, so the stamps put   *)
(* on a session are not stored.                                            *)
(***************************************************************************)
\* the write half of the force-stop routes on the record of day d
ForceStopRecordWrite(ep, d) ==
  LET a == att[d]
      ss == [i \in 1..Len(a.sessions) |->
               IF a.sessions[i].isActive
                 THEN [a.sessions[i] EXCEPT !.checkOutTime = HHMM(now),
                                            !.isActive = FALSE]
                 ELSE a.sessions[i]]
  IN /\ att' = [att EXCEPT ![d] =
          PreSave([a EXCEPT !.sessions = ss, !.isActive = FALSE,
                            !.forceStopped = TRUE], rate, now)]
     /\ ledger' = [i \in 1..Len(ledger) |->
          IF ledger[i].date = d /\ ledger[i].isActive
            THEN [ledger[i] EXCEPT !.isActive = FALSE,
                                   !.forceStopped = TRUE]
            ELSE ledger[i]]
     /\ Reply(ep, 200, "active")
     /\ UNCHANGED <<now, today, rate, req>>

\* force-stop route that stamps and saves the record before it counts the
\* sessions it closed
ForceStopRecord_StampFirst(ep, d) ==
  LET a == att[d] IN
  IF a = NoRec
    THEN /\ Reply(ep, 404, "none")
         /\ UNCHANGED <<now, today, rate, ledger, att, req>>
    ELSE IF FirstActive(a.sessions) = 0
      THEN /\ att' = [att EXCEPT ![d] =
                PreSave([a EXCEPT !.isActive = FALSE, !.forceStopped = TRUE],
                        rate, now)]
           /\ Reply(ep, 400, "none")
           /\ UNCHANGED <<now, today, rate, ledger, req>>
      ELSE ForceStopRecordWrite(ep, d)

ForceStopRecord(ep, d) ==
  LET a == att[d] IN
  IF a = NoRec
    THEN /\ Reply(ep, 404, "none")
         /\ UNCHANGED <<now, today, rate, ledger, att, req>>
    ELSE IF FirstActive(a.sessions) = 0
      THEN /\ Reply(ep, 400, "none")
           /\ UNCHANGED <<now, today, rate, ledger, att, req>>
      ELSE ForceStopRecordWrite(ep, d)

(***************************************************************************)
(* sessionController.forceStopSession (POST /sessions/force-stop/:id);     *)
(* id = 0 stands for an id that names no ledger document.                  *)
(***************************************************************************)
ForceStopSession(id) ==
  IF id = 0
    THEN /\ Reply("forceStopSession", 404, "none")
         /\ UNCHANGED <<now, today, rate, ledger, att, req>>
    ELSE IF ~ledger[id].isActive
      THEN /\ Reply("forceStopSession", 400, "none")
           /\ UNCHANGED <<now, today, rate, ledger, att, req>>
      ELSE LET d == ledger[id].date
               sec == (today - d) * 86400 + now - ledger[id].checkInTime
               a == att[d]
           IN /\ ledger' = [ledger EXCEPT
                              ![id].isActive = FALSE,
                              ![id].totalHours = Round2(ElapsedHours(sec)),
                              ![id].forceStopped = TRUE]
              /\ IF a = NoRec
                   THEN att' = att
                   ELSE LET i == FirstActive(a.sessions)
                            b == IF i # 0
                                   THEN [a EXCEPT
                                           !.sessions[i].checkOutTime = HHMM(now),
                                           !.sessions[i].isActive = FALSE,
                                           !.sessions[i].sessionHours =
                                              Round4(ElapsedHours(sec))]
                                   ELSE a
                        IN att' = [att EXCEPT ![d] =
                             PreSave([b EXCEPT !.forceStopped = TRUE], rate, now)]
              /\ Reply("forceStopSession", 200, "active")
              /\ UNCHANGED <<now, today, rate, req>>

(***************************************************************************)
(* Lateness against 09:00, as POST /attendance computes it                 *)
(***************************************************************************)
standardTime == 540

Lateness(checkInTime, status) ==
  IF checkInTime # NoTime /\ status = "present"
       /\ ParseMinutes(checkInTime) > standardTime
    THEN [isLate |-> TRUE, lateMinutes |-> ParseMinutes(checkInTime) - standardTime]
    ELSE [isLate |-> FALSE, lateMinutes |-> 0]

\* the values a request body gives to status, checkInTime and checkOutTime;
\* "" and NoTime stand for a field the body leaves out
BodyStatus == {"", "present", "absent"}
BodyCheckIn == {NoTime, 545}
BodyCheckOut == {NoTime, 1025}

(***************************************************************************)
(* POST /attendance of the admin router: a record with a status and        *)
(* record-level times, without sessions                                    *)
(***************************************************************************)
AdminCreate(d, status, checkInTime, checkOutTime) ==
  IF att[d] # NoRec
    THEN /\ Reply("attendance/create", 400, "none")
         /\ UNCHANGED <<now, today, rate, ledger, att, req>>
    ELSE LET l == Lateness(checkInTime, status)
             a == [NewAttendance(status, <<>>, checkInTime, checkOutTime, FALSE)
                     EXCEPT !.isLate = l.isLate, !.lateMinutes = l.lateMinutes]
         IN /\ att' = [att EXCEPT ![d] = PreSave(a, rate, now)]
            /\ Reply("attendance/create", 201, "none")
            /\ UNCHANGED <<now, today, rate, ledger, req>>

(***************************************************************************)
(* AttendanceSchema.pre(['updateOne', 'findOneAndUpdate']): the totals the *)
(* hook adds to the update u of the stored document a, at hourly rate r.   *)
(* They come from the record-level times, not from the sessions.           *)
(***************************************************************************)
PreUpdate(u, a, r) ==
  IF (u.checkInTime # NoTime \/ u.checkOutTime # NoTime \/ u.status # "") /\ r > 0
    THEN LET newCheckInTime == IF u.checkInTime # NoTime THEN u.checkInTime
                               ELSE a.checkInTime
             newCheckOutTime == IF u.checkOutTime # NoTime THEN u.checkOutTime
                                ELSE a.checkOutTime
             newStatus == IF u.status # "" THEN u.status ELSE a.status
             totalHours == calculateHoursWorked(newCheckInTime, newCheckOutTime)
         IN [a EXCEPT !.hourlyRate = r,
                      !.totalHours = totalHours,
                      !.dailySalary = calculateDailySalary(totalHours, r, newStatus)]
    ELSE a

(***************************************************************************)
(* PUT /attendance/:id of the admin router (the first of the two handlers  *)
(* registered for the path serves it): findByIdAndUpdate on record d.      *)
(* The body leaves isLate and lateMinutes out.                             *)
(***************************************************************************)
AdminEdit(d, status, checkInTime, checkOutTime) ==
  LET a == att[d] IN
  IF a = NoRec
    THEN /\ Reply("attendance/edit", 404, "none")
         /\ UNCHANGED <<now, today, rate, ledger, att, req>>
    ELSE LET u == [status |-> status, checkInTime |-> checkInTime,
                   checkOutTime |-> checkOutTime]
             b == PreUpdate(u, a, rate)
         IN /\ att' = [att EXCEPT ![d] =
                 [b EXCEPT
                    !.status = IF status # "" THEN status ELSE @,
                    !.checkInTime = IF checkInTime # NoTime THEN checkInTime ELSE @,
                    !.checkOutTime = IF checkOutTime # NoTime THEN checkOutTime ELSE @,
                    !.originalStatus = IF @ = "null" THEN a.status ELSE @]]
            /\ Reply("attendance/edit", 200, "none")
            /\ UNCHANGED <<now, today, rate, ledger, req>>

(***************************************************************************)
(* PUT /update of the user's attendance router: sets the record-level      *)
(* check-out (when the body has one) and saves.  The totalHours and        *)
(* dailySalary of the body are overwritten by the save hook in both of its *)
(* branches, so they are left out.                                         *)
(***************************************************************************)
PutUpdate(d, checkOutTime) ==
  LET a == att[d] IN
  IF a = NoRec
    THEN /\ Reply("attendance/update", 404, "none")
         /\ UNCHANGED <<now, today, rate, ledger, att, req>>
    ELSE /\ att' = [att EXCEPT ![d] =
              PreSave([a EXCEPT !.checkOutTime =
                         IF checkOutTime # NoTime THEN checkOutTime ELSE @],
                      rate, now)]
         /\ Reply("attendance/update", 200, "none")
         /\ UNCHANGED <<now, today, rate, ledger, req>>

(***************************************************************************)
(* The user's attendance router.  A body gives status as the client typed  *)
(* it; the handlers validate and store status.toLowerCase() and compare the *)
(* status as typed with 'present'.                                          *)
(***************************************************************************)
UserStatus == {"present", "Present", "absent"}

\* the check-out times of a user's edit: none, 17:05, and 02:00 of the night
UserCheckOut == {NoTime, 1025, 120}

ToLowerCase(status) == IF status = "Present" THEN "present" ELSE status

\* POST / of the user's attendance router: mark attendance for day d
UserCreate(d, status, checkInTime, checkOutTime) ==
  IF att[d] # NoRec
    THEN /\ Reply("attendance/mark-new", 409, "none")
         /\ UNCHANGED <<now, today, rate, ledger, att, req>>
    ELSE LET l == Lateness(checkInTime, status)
             a == [NewAttendance(ToLowerCase(status), <<>>, checkInTime,
                                 checkOutTime, FALSE)
                     EXCEPT !.isLate = l.isLate, !.lateMinutes = l.lateMinutes,
                            !.originalStatus = ToLowerCase(status)]
         IN /\ att' = [att EXCEPT ![d] = PreSave(a, rate, now)]
            /\ Reply("attendance/mark-new", 201, "none")
            /\ UNCHANGED <<now, today, rate, ledger, req>>

\* POST /mark: as POST /, but an existing record that is not present is
\* turned to present (with the body's check-in) and saved
UserMark(d, status, checkInTime, checkOutTime) ==
  LET a == att[d] IN
  IF a # NoRec
    THEN IF a.status # "present"
           THEN /\ att' = [att EXCEPT ![d] =
                     PreSave([a EXCEPT !.status = "present",
                                       !.checkInTime =
                                          IF checkInTime # NoTime
                                            THEN checkInTime ELSE @],
                             rate, now)]
                /\ Reply("attendance/mark", 200, "none")
                /\ UNCHANGED <<now, today, rate, ledger, req>>
           ELSE /\ Reply("attendance/mark", 409, "none")
                /\ UNCHANGED <<now, today, rate, ledger, att, req>>
    ELSE LET l == Lateness(checkInTime, status)
             b == [NewAttendance(ToLowerCase(status), <<>>, checkInTime,
                                 checkOutTime, FALSE)
                     EXCEPT !.isLate = l.isLate, !.lateMinutes = l.lateMinutes,
                            !.originalStatus = ToLowerCase(status)]
         IN /\ att' = [att EXCEPT ![d] = PreSave(b, rate, now)]
            /\ Reply("attendance/mark", 201, "none")
            /\ UNCHANGED <<now, today, rate, ledger, req>>

\* lateness as PUT /:id computes it: the status of the body ("" when left
\* out) or the stored status may be 'present'
LatenessEdit(checkInTime, status, existingStatus) ==
  IF checkInTime # NoTime /\ (status = "present" \/ existingStatus = "present")
       /\ ParseMinutes(checkInTime) > standardTime
    THEN [isLate |-> TRUE, lateMinutes |-> ParseMinutes(checkInTime) - standardTime]
    ELSE [isLate |-> FALSE, lateMinutes |-> 0]

\* PUT /:id of the user's attendance router: findByIdAndUpdate on record d
UserEdit(d, status, checkInTime, checkOutTime) ==
  LET a == att[d] IN
  IF a = NoRec
    THEN /\ Reply("attendance/user-edit", 404, "none")
         /\ UNCHANGED <<now, today, rate, ledger, att, req>>
    ELSE LET l == LatenessEdit(checkInTime, status, a.status)
             u == [status |-> ToLowerCase(status), checkInTime |-> checkInTime,
                   checkOutTime |-> checkOutTime]
             b == PreUpdate(u, a, rate)
         IN /\ att' = [att EXCEPT ![d] =
                 [b EXCEPT
                    !.status = IF status # "" THEN ToLowerCase(status) ELSE @,
                    !.checkInTime = IF checkInTime # NoTime THEN checkInTime ELSE @,
                    !.checkOutTime = IF checkOutTime # NoTime THEN checkOutTime ELSE @,
                    !.isLate = l.isLate,
                    !.lateMinutes = l.lateMinutes,
                    !.originalStatus = IF @ = "null" THEN a.status ELSE @]]
            /\ Reply("attendance/user-edit", 200, "none")
            /\ UNCHANGED <<now, today, rate, ledger, req>>

\* POST /attendance/bulk of the admin router with one update operation whose
\* data sets the status of record d: findByIdAndUpdate, nothing else
BulkUpdate(d, status) ==
  LET a == att[d] IN
  IF a = NoRec
    THEN /\ Reply("attendance/bulk", 200, "none")
         /\ UNCHANGED <<now, today, rate, ledger, att, req>>
    ELSE LET u == [status |-> status, checkInTime |-> NoTime,
                   checkOutTime |-> NoTime]
         IN /\ att' = [att EXCEPT ![d] =
                 [PreUpdate(u, a, rate) EXCEPT !.status = status]]
            /\ Reply("attendance/bulk", 200, "none")
            /\ UNCHANGED <<now, today, rate, ledger, req>>

(***************************************************************************)
(* sessionController.startSession served concurrently: request p runs the  *)
(* handler one storage call (await) at a time, other requests in between.  *)
(*   begin       lines 29-40   the clock is read, the user is found        *)
(*   lookup      lines 43-67   ActiveSession.findOne                       *)
(*   saveLedger  lines 70-78   activeSession.save()                        *)
(*   findAtt     lines 81-84   Attendance.findOne                          *)
(*   saveAtt     lines 86-128  attendance.save()                           *)
(***************************************************************************)
CBegin(p) ==
  /\ req[p].pc = "idle"
  /\ req' = [req EXCEPT ![p] = [pc |-> "lookup", day |-> today, t |-> now,
                                doc |-> NoRec]]
  /\ UNCHANGED <<now, today, rate, ledger, att, last>>

CLookup(p) ==
  /\ req[p].pc = "lookup"
  /\ IF FindActive(ledger, req[p].day) # 0
       THEN /\ req' = [req EXCEPT ![p] = Idle]
            /\ Reply("startSession", 200, "active")
       ELSE /\ req' = [req EXCEPT ![p].pc = "saveLedger"]
            /\ last' = last
  /\ UNCHANGED <<now, today, rate, ledger, att>>

CSaveLedger(p) ==
  /\ req[p].pc = "saveLedger"
  /\ Len(ledger) < MaxSessions
  /\ ledger' = Append(ledger, NewActiveSession(req[p].day, req[p].t))
  /\ req' = [req EXCEPT ![p].pc = "findAtt"]
  /\ UNCHANGED <<now, today, rate, att, last>>

CFindAtt(p) ==
  /\ req[p].pc = "findAtt"
  /\ req' = [req EXCEPT ![p].pc = "saveAtt", ![p].doc = att[req[p].day]]
  /\ UNCHANGED <<now, today, rate, ledger, att, last>>

\* attendance.save() on a collection without the unique index of (userId,
\* date): a new document is stored although the day already has one
CSaveAtt_NoIndex(p) ==
  /\ req[p].pc = "saveAtt"
  /\ LET d == req[p].day
         s == NewSession(HHMM(req[p].t), NoTime, TRUE)
         doc == req[p].doc
         mine == IF doc = NoRec
                   THEN NewAttendance("present", <<s>>, NoTime, NoTime, TRUE)
                   ELSE [doc EXCEPT !.sessions = Append(@, s), !.isActive = TRUE]
     IN /\ doc # NoRec => Len(doc.sessions) < MaxSessions
        /\ \/ /\ att[d] = doc \/ doc = NoRec
              /\ att' = [att EXCEPT ![d] = PreSave(mine, rate, now)]
           \/ /\ att[d] # doc /\ doc # NoRec
              /\ att' = att
  /\ req' = [req EXCEPT ![p] = Idle]
  /\ Reply("startSession", 200, "none")
  /\ UNCHANGED <<now, today, rate, ledger>>

\* attendance.save().  A new document is inserted unless the unique index
\* already holds one for the day (E11000).  For a document that another
\* request changed since it was read, the outcome depends on the delta
\* Mongoose sends: a VersionError, the push applied to the stored document,
\* or the stored document overwritten.  Every error is caught and answered
\* "Session started successfully" (lines 129-136).
CSaveAtt(p) ==
  /\ req[p].pc = "saveAtt"
  /\ LET d == req[p].day
         s == NewSession(HHMM(req[p].t), NoTime, TRUE)
         doc == req[p].doc
         mine == IF doc = NoRec
                   THEN NewAttendance("present", <<s>>, NoTime, NoTime, TRUE)
                   ELSE [doc EXCEPT !.sessions = Append(@, s), !.isActive = TRUE]
     IN /\ doc # NoRec => Len(doc.sessions) < MaxSessions
        /\ \/ /\ att[d] = doc
              /\ att' = [att EXCEPT ![d] = PreSave(mine, rate, now)]
           \/ /\ att[d] # doc
              /\ att' = att
           \/ /\ att[d] # doc /\ doc # NoRec /\ att[d] # NoRec
              /\ att' = [att EXCEPT ![d] = PreSave(mine, rate, now)]
           \/ /\ att[d] # doc /\ doc # NoRec /\ att[d] # NoRec
              /\ Len(att[d].sessions) < MaxSessions
              /\ att' = [att EXCEPT ![d] =
                   PreSave([att[d] EXCEPT !.sessions = Append(@, s),
                                          !.isActive = TRUE], rate, now)]
  /\ req' = [req EXCEPT ![p] = Idle]
  /\ Reply("startSession", 200, "none")
  /\ UNCHANGED <<now, today, rate, ledger>>

(***************************************************************************)
(* Specifications.  Requests are served one at a time, each handler as one *)
(* step.  Spec has every entry point that starts or stops a session        *)
(* through the ledger; SpecRecord the ones that work on the Day Record     *)
(* (check-in, check-out, force-stop) with the controller's; SpecEdit the   *)
(* routes that create and edit Day Records, with the controller's.         *)
(***************************************************************************)
Next ==
  \/ NextDay
  \/ Tick
  \/ SetRate
  \/ StartSession
  \/ StopSession
  \/ \E ep \in {"sessions/start", "user/start"} : RouteStart(ep)
  \/ SessionsStop
  \/ UserStop
  \/ AdminSessionsStart
  \/ AdminSessionsStop

Spec == Init /\ [][Next]_vars

NextRecord ==
  \/ Tick
  \/ SetRate
  \/ StartSession
  \/ StopSession
  \/ CheckIn
  \/ CheckOut
  \/ \E ep \in {"force-stop", "force-stop-by-id"}, d \in Days : ForceStopRecord(ep, d)
  \/ \E id \in 0..Len(ledger) : ForceStopSession(id)

SpecRecord == Init /\ [][NextRecord]_vars

NextEdit ==
  \/ Tick
  \/ SetRate
  \/ StartSession
  \/ StopSession
  \/ \E st \in {"absent", "late"} : AdminCreate(today, st, 545, 1025)
  \/ \E st \in BodyStatus, ci \in BodyCheckIn, co \in BodyCheckOut :
       AdminEdit(today, st, ci, co)
  \/ \E co \in {NoTime, HHMM(now)} : PutUpdate(today, co)

SpecEdit == Init /\ [][NextEdit]_vars

\* records marked, created and edited by the user and by the admin
NextMark ==
  \/ Tick
  \/ SetRate
  \/ \E st \in {"absent", "late"} : AdminCreate(today, st, 545, 1025)
  \/ \E st \in UserStatus, ci \in BodyCheckIn : UserCreate(today, st, ci, NoTime)
  \/ \E st \in UserStatus, ci \in BodyCheckIn : UserMark(today, st, ci, NoTime)
  \/ \E st \in UserStatus \cup {""}, ci \in BodyCheckIn, co \in UserCheckOut :
       UserEdit(today, st, ci, co)
  \/ \E st \in BodyStatus, ci \in BodyCheckIn : AdminEdit(today, st, ci, NoTime)
  \/ \E st \in {"absent", "leave"} : BulkUpdate(today, st)

SpecMark == Init /\ [][NextMark]_vars

\* the controller served with valid and invalid user identifiers
NextValidate ==
  \/ Tick
  \/ NextDay
  \/ SetRate
  \/ StartSession
  \/ StopSession
  \/ \E userId \in BadUserIds : StartSessionInvalid(userId)
  \/ \E userId \in BadUserIds : StopSessionInvalid(userId)
  \/ \E ep \in {"sessions/start", "sessions/stop"}, userId \in BadUserIds :
       RouteInvalid(ep, userId)
  \/ \E ep \in ActiveEps : GetActive(ep)
  \/ \E ep \in {"getActiveSession", "sessions/active"}, userId \in BadUserIds :
       GetActiveInvalid(ep, userId)

SpecValidate == Init /\ [][NextValidate]_vars

\* startSession requests interleaved at their storage calls, with stopSession
\* requests served in one step each
NextConcurrent ==
  \/ Tick
  \/ \E p \in 1..MaxReq : CBegin(p)
  \/ \E p \in 1..MaxReq : CLookup(p)
  \/ \E p \in 1..MaxReq : CSaveLedger(p)
  \/ \E p \in 1..MaxReq : CFindAtt(p)
  \/ \E p \in 1..MaxReq : CSaveAtt(p)
  \/ StopSession
  \/ AdminCreate(today, "present", 545, NoTime)

SpecConcurrent == Init /\ [][NextConcurrent]_vars

(***************************************************************************)
(* Claims                                                                  *)
(***************************************************************************)
StartEps == {"startSession", "sessions/start", "user/start", "admin-sessions/start"}
StopEps == {"stopSession", "sessions/stop", "user/stop", "admin-sessions/stop"}

Active(ss) == {i \in 1..Len(ss) : ss[i].isActive}
AllClosed(a) == \A i \in 1..Len(a.sessions) : a.sessions[i].checkOutTime # NoTime

\* C1: every Day Record holds at most one session with isActive = true, after
\* any sequence of completed check-in, check-out and force-stop requests
\* through any entry point.
C1_OneActivePerDayRecord ==
  \A d \in Days : att[d] # NoRec => Cardinality(Active(att[d].sessions)) <= 1

\* C2: with Start requests interleaved at their storage calls, the ledger never
\* holds two active documents for the same date.
C2_OneActiveLedgerPerDay ==
  \A i, j \in 1..Len(ledger) :
    (ledger[i].isActive /\ ledger[j].isActive /\ ledger[i].date = ledger[j].date)
      => i = j

\* C3 as stated: a Start that finds an active session for today answers with
\* success and changes nothing, at every Start entry point.
C3_StartOnActiveSucceeds ==
  [][(last'.ep \in StartEps /\ FindActive(ledger, today) # 0)
       => (last'.code = 200 /\ ledger' = ledger /\ att' = att)]_vars

\* C3 as amended: a Start that finds an active session for today changes
\* nothing at every Start entry point; sessionController.startSession answers
\* with success (200), the three route handlers answer 400.
C3_StartOnActiveChangesNothing ==
  [][(last'.ep \in StartEps /\ FindActive(ledger, today) # 0)
       => /\ ledger' = ledger /\ att' = att /\ rate' = rate
          /\ last'.code = IF last'.ep = "startSession" THEN 200 ELSE 400]_vars

\* C3 witness: startSession has just answered 200 for a session that was
\* already active, with the Day Record of that session in place.
C3_Witness ==
  /\ last = [ep |-> "startSession", code |-> 200, pre |-> "active"]
  /\ FindActive(ledger, today) # 0
  /\ att[today] # NoRec /\ Active(att[today].sessions) # {}

C5_StartOpensSessionInBothStores ==
  [][(last'.ep \in StartEps /\ last'.pre # "invalid" /\ FindActive(ledger, today) = 0)
       => LET old == IF att[today] = NoRec THEN <<>> ELSE att[today].sessions
          IN /\ att[today] # NoRec => last'.code = 200
             /\ last'.code = 200 =>
                  /\ ledger' = Append(ledger, NewActiveSession(today, now))
                  /\ att'[today] # NoRec
                  /\ att[today] = NoRec => att'[today].status = "present"
                  /\ Len(att'[today].sessions) = Len(old) + 1
                  /\ att'[today].sessions[Len(old) + 1].isActive
                  /\ \A i \in 1..Len(old) :
                       /\ att'[today].sessions[i].checkInTime = old[i].checkInTime
                       /\ att'[today].sessions[i].checkOutTime = old[i].checkOutTime]_vars

\* C6: right after a successful Stop of an active session, no session of today
\* is active in the ledger or in the Day Record.
C6_StopClosesBothStores ==
  [][(/\ last'.ep \in StopEps /\ last'.pre # "invalid" /\ last'.code = 200
      /\ FindActive(ledger, today) # 0)
       => /\ FindActive(ledger', today) = 0
          /\ att'[today] # NoRec => Active(att'[today].sessions) = {}]_vars

\* C7: in every Day Record totalHours is the sum of its sessions' sessionHours
\* and dailySalary the sum of their sessionSalary.
C7_TotalsAreSums ==
  \A d \in Days : att[d] # NoRec =>
    /\ att[d].totalHours = SumHours(att[d].sessions)
    /\ att[d].dailySalary = SumSalary(att[d].sessions)

\* C8: a Day Record whose status is absent or leave has totalHours 0 and
\* dailySalary 0.
C8_NoHoursNoPayWhenAbsent ==
  \A d \in Days : (att[d] # NoRec /\ att[d].status \in {"absent", "leave"}) =>
    (att[d].totalHours = 0 /\ att[d].dailySalary = 0)

\* C9: a Day Record saved while its owner's hourly rate is 0 ends with
\* hourlyRate 0, dailySalary 0 and sessionSalary 0 in every session.
C9_ZeroRateZeroMoney ==
  [][\A d \in Days :
       (rate = 0 /\ rate' = 0 /\ att'[d] # att[d] /\ last'.ep # "attendance/edit")
         => /\ att'[d].hourlyRate = 0
            /\ att'[d].dailySalary = 0
            /\ \A i \in 1..Len(att'[d].sessions) :
                 att'[d].sessions[i].sessionSalary = 0]_vars

\* C10 as stated: the save hook run now and run again at any later time of the
\* day, with no change in between, gives the same Day Record the second time,
\* whether or not a session is open.
C10_SaveTwiceSame ==
  \A d \in Days : \A t \in Times :
    (att[d] # NoRec /\ t >= now) =>
      PreSave(PreSave(att[d], rate, now), rate, t) = PreSave(att[d], rate, now)

\* C10 as amended: the second run gives the same Day Record when all sessions
\* of the record are closed, when the hourly rate is 0, or when the clock still
\* shows the same minute; an open session at a rate above 0 is recomputed
\* against the clock.
C10_SaveTwiceSameWhenClosed ==
  \A d \in Days : \A t \in Times :
    (/\ att[d] # NoRec /\ t >= now
     /\ (AllClosed(att[d]) \/ rate = 0 \/ HHMM(t) = HHMM(now))) =>
      PreSave(PreSave(att[d], rate, now), rate, t) = PreSave(att[d], rate, now)

\* C10 witness: a saved Day Record with a closed session that has hours and
\* salary, at a rate above 0, with a later time of the day still to come.
C10_Witness ==
  \E d \in Days :
    /\ att[d] # NoRec /\ rate > 0
    /\ att[d].sessions # <<>> /\ AllClosed(att[d])
    /\ att[d].totalHours > 0 /\ att[d].dailySalary > 0
    /\ \E t \in Times : t > now


\* the hours and money a recomputation derives for a Day Record
Derived(a) ==
  <<a.totalHours, a.dailySalary,
    [i \in 1..Len(a.sessions) |->
       <<a.sessions[i].sessionHours, a.sessions[i].sessionSalary>>]>>

\* C11: a change of the user's hourly rate modifies no Day Record, and every
\* step that creates a Day Record or changes its hours or money leaves in it
\* the rate the user has at that step; no other step changes the stored rate.
C11_RateIsSnapshot ==
  [][/\ last'.ep = "users" => att' = att
     /\ \A d \in Days :
          att'[d] # NoRec =>
            IF att[d] = NoRec \/ Derived(att'[d]) # Derived(att[d])
              THEN rate' = rate /\ att'[d].hourlyRate = rate
              ELSE att'[d].hourlyRate \in {att[d].hourlyRate, rate}]_vars

\* C11 witness: the rate has just been changed while a Day Record holds a
\* salary computed at the former rate, which it keeps.
C11_Witness ==
  /\ last.ep = "users"
  /\ \E d \in Days :
       /\ att[d] # NoRec /\ att[d].dailySalary > 0
       /\ att[d].hourlyRate # rate /\ att[d].hourlyRate > 0


ForceEps == {"forceStopSession", "force-stop", "force-stop-by-id"}

\* a force-stop through ep can find no open session: no ledger document is
\* active (by session id), no Day Record holds an active session (by user and
\* date, by record id)
NothingOpenFor(ep) ==
  IF ep = "forceStopSession"
    THEN \A i \in 1..Len(ledger) : ~ledger[i].isActive
    ELSE \A d \in Days : att[d] = NoRec \/ Active(att[d].sessions) = {}

UnstampLedger(l) == [i \in 1..Len(l) |-> [l[i] EXCEPT !.forceStopped = FALSE]]
UnstampAtt(r) ==
  [d \in Days |-> IF r[d] = NoRec THEN NoRec
                  ELSE [r[d] EXCEPT !.forceStopped = FALSE]]

\* C13: a successful force-stop of the session that is open in both stores
\* leaves the ledger and the Day Record as stopSession at the same time would,
\* apart from the force-stop stamps, which it sets.
C13_ForceStopIsStopPlusStamps ==
  [][(/\ last'.ep \in ForceEps /\ last'.code = 200
      /\ FindActive(ledger, today) # 0
      /\ att[today] # NoRec /\ Active(att[today].sessions) # {})
       => LET ex == FindActive(ledger, today)
          IN /\ UnstampLedger(ledger') = UnstampLedger(StopLedger(ex))
             /\ UnstampAtt(att') = UnstampAtt(StopAtt(ex))
             /\ ledger'[ex].forceStopped /\ att'[today].forceStopped]_vars


\* the ledger documents of day d
LedgerOf(l, d) == {i \in 1..Len(l) : l[i].date = d}

\* C14: after a successful force-stop no session of the day it acted on is
\* active, in the Day Record or in the ledger.
C14_ForceStopClosesAll ==
  [][(last'.ep \in ForceEps /\ last'.code = 200)
       => \A d \in Days :
            (att'[d] # att[d] \/ \E i \in LedgerOf(ledger, d) : ledger'[i] # ledger[i])
              => /\ att'[d] # NoRec => Active(att'[d].sessions) = {}
                 /\ \A i \in LedgerOf(ledger', d) : ~ledger'[i].isActive]_vars


\* C15: a Start or Stop request that aborts (500) has persisted either its
\* ledger change together with its Day Record change, or neither.
C15_AbortIsAllOrNothing ==
  [][(last'.ep \in StartEps \cup StopEps /\ last'.code = 500)
       => \/ ledger' = ledger /\ att' = att
          \/ ledger' # ledger /\ att' # att]_vars


\* C16: a Start or Stop request whose user identifier is missing, malformed or
\* names no user is answered with an error status and changes nothing.
C16_InvalidUserIsRejected ==
  [][(last'.ep \in StartEps \cup StopEps /\ last'.pre = "invalid")
       => /\ last'.code \in 400..599
          /\ ledger' = ledger /\ att' = att /\ rate' = rate]_vars


\* hours and money in the units of the model
Hours(n) == 90000 * n
Money(n) == 90000 * n

\* C17: a Day Record with status present and sessions opened by Start has
\* isLate and lateMinutes derived from its first session's check-in against
\* 09:00; one session 09:05 to 17:05 at rate 20 gives totalHours 8, isLate,
\* lateMinutes 5 and dailySalary 160.
C17_SessionRecordLateness ==
  \A d \in Days :
    (att[d] # NoRec /\ att[d].status = "present" /\ att[d].sessions # <<>>) =>
      LET checkIn == att[d].sessions[1].checkInTime IN
      /\ att[d].isLate = (checkIn > standardTime)
      /\ att[d].lateMinutes = IF checkIn > standardTime
                                THEN checkIn - standardTime ELSE 0
      /\ (/\ Len(att[d].sessions) = 1 /\ att[d].hourlyRate = 20
          /\ checkIn = 545 /\ att[d].sessions[1].checkOutTime = 1025)
           => /\ att[d].totalHours = Hours(8) /\ att[d].dailySalary = Money(160)
              /\ att[d].isLate /\ att[d].lateMinutes = 5


\* a step in which a handler has computed lateness for record d from the
\* check-in of its body: a record created by admin create or user mark, or a
\* user edit that changed the record's check-in
LatenessComputed(d) ==
  /\ att'[d] # NoRec
  /\ \/ /\ last'.ep \in {"attendance/create", "attendance/mark-new", "attendance/mark"}
        /\ last'.code = 201 /\ att[d] = NoRec
     \/ /\ last'.ep = "attendance/user-edit" /\ last'.code = 200
        /\ att'[d].checkInTime # att[d].checkInTime

\* C18: at every call site the lateness stored with a check-in HH:MM is
\* isLate = (60*HH + MM > 540) with lateMinutes = 60*HH + MM - 540 when the
\* record's resulting status is present, and (false, 0) when it is not late
\* or the resulting status is not present.
C18_LatenessFunction ==
  [][\A d \in Days :
       LatenessComputed(d) =>
         LET m == att'[d].checkInTime
             late == m # NoTime /\ m > 540 /\ att'[d].status = "present"
         IN /\ att'[d].isLate = late
            /\ att'[d].lateMinutes = IF late THEN m - 540 ELSE 0]_vars


\* times of day HH:MM, as minutes, that the hours function is checked on
MinuteSamples == {0, 1, 120, 539, 540, 541, 545, 1020, 1025, 1320, 1439}

\* ((end - start) mod 1440) / 60 hours, exactly and rounded to 4 decimals
HoursBetweenExact(s, e) ==
  IF s = NoTime \/ e = NoTime THEN 0 ELSE 1500 * ((e - s) % 1440)
HoursBetweenRounded(s, e) ==
  IF s = NoTime \/ e = NoTime THEN 0 ELSE Round4(1500 * ((e - s) % 1440))

\* the HH:MM times the hours function is checked on: the samples, an absent
\* time, and the record-level times of the stored Day Records
HoursInputs ==
  MinuteSamples \cup {NoTime}
    \cup {t \in UNION {{att[d].checkInTime, att[d].checkOutTime} :
                         d \in {x \in Days : att[x] # NoRec}} : t < LocaleBase}

\* C19 as stated: for two HH:MM times calculateHoursWorked is exactly
\* ((end - start) mod 1440) / 60 hours, within [0, 24), 8 for 09:00 to 17:00
\* and 4 for 22:00 to 02:00, and 0 when a time is absent.
C19_HoursExact ==
  /\ \A s, e \in HoursInputs :
       LET h == calculateHoursWorked(s, e)
       IN h = HoursBetweenExact(s, e) /\ h >= 0 /\ h < Hours(24)
  /\ calculateHoursWorked(540, 1020) = Hours(8)
  /\ calculateHoursWorked(1320, 120) = Hours(4)

\* C19 as amended: the same with the value rounded to 4 decimals of an hour.
C19_HoursRounded ==
  /\ \A s, e \in HoursInputs :
       LET h == calculateHoursWorked(s, e)
       IN h = HoursBetweenRounded(s, e) /\ h >= 0 /\ h < Hours(24)
  /\ calculateHoursWorked(540, 1020) = Hours(8)
  /\ calculateHoursWorked(1320, 120) = Hours(4)

\* C19 witness: an edit has stored the hours of 09:05 to 02:00 of the night,
\* 1015 minutes, which is 16.9167 hours after rounding.
C19_Witness ==
  \E d \in Days :
    /\ att[d] # NoRec /\ last.ep = "attendance/user-edit"
    /\ att[d].checkInTime = 545 /\ att[d].checkOutTime = 120
    /\ att[d].totalHours = calculateHoursWorked(545, 120)
    /\ att[d].totalHours # 1500 * 1015
    /\ att[d].totalHours = 9 * 169167


\* C20: the originalStatus of a Day Record, once set, never changes, and it
\* equals the status the record was created with.
C20_OriginalStatusIsFirstStatus ==
  [][\A d \in Days :
       att'[d] # NoRec =>
         /\ (att[d] # NoRec /\ att[d].originalStatus # "null")
              => att'[d].originalStatus = att[d].originalStatus
         /\ att'[d].originalStatus # "null"
              => att'[d].originalStatus = att'[d].createdStatus]_vars

(***************************************************************************)
(* C21: at most one Day Record exists per (userId, date), also when two    *)
(* first check-ins of the day run concurrently and when an admin creation  *)
(* and a check-in race.  The store att holds one record per day; what the  *)
(* unique index has to guarantee for that is that the save of a newly      *)
(* built document is refused, and the stored record kept as it is, when    *)
(* the day has received a record since the request looked for one.         *)
(***************************************************************************)
C21_OneDayRecordPerDate ==
  [][\A p \in 1..MaxReq :
       (/\ req[p].pc = "saveAtt"
        /\ req[p].doc = NoRec
        /\ att[req[p].day] # NoRec
        /\ req'[p] = Idle)
       => att' = att]_vars

\* a request that found no Day Record is about to insert one, and the day
\* has a record by now (of the other check-in, or created by the admin)
C21_Witness ==
  \E p \in 1..MaxReq :
     /\ req[p].pc = "saveAtt"
     /\ req[p].doc = NoRec
     /\ att[req[p].day] # NoRec
     /\ \A q \in 1..MaxReq \ {p} : req[q] = Idle


\* C22 as stated: a read path never fails for a valid user, changes nothing,
\* and answers hasActiveSession = false exactly when the ledger holds no
\* session with isActive = true for the user.
C22_ReportsAnyActiveSession ==
  [][(last'.ep \in ActiveEps /\ last'.pre # "invalid")
       => /\ last'.code = 200
          /\ (last'.pre = "noActive")
               <=> ~ \E i \in 1..Len(ledger) : ledger[i].isActive
          /\ ledger' = ledger /\ att' = att /\ rate' = rate]_vars

\* C22: a read path never fails for a valid user, changes nothing, and
\* answers hasActiveSession = false exactly when the ledger holds no session
\* with isActive = true for the user and the current date; a session left
\* active on an earlier date is not reported.
C22_ReportsTodaysActiveSession ==
  [][(last'.ep \in ActiveEps /\ last'.pre # "invalid")
       => /\ last'.code = 200
          /\ (last'.pre = "noActive")
               <=> ~ \E i \in 1..Len(ledger) :
                       ledger[i].isActive /\ ledger[i].date = today
          /\ (last'.pre = "hasActive")
               <=> \E i \in 1..Len(ledger) :
                       ledger[i].isActive /\ ledger[i].date = today
          /\ ledger' = ledger /\ att' = att /\ rate' = rate]_vars

\* a read path has answered hasActiveSession = false while the ledger holds
\* a session of an earlier date that is still active
C22_Witness ==
  /\ last.ep \in ActiveEps
  /\ last.pre = "noActive"
  /\ \E i \in 1..Len(ledger) : ledger[i].isActive /\ ledger[i].date < today


\* C23: session timestamps are write-once and session state is monotonic, in
\* the Day Record and in the ledger: a session's checkInTime never changes,
\* its checkOutTime never changes once set, and a session that is not active
\* never becomes active again.
C23_SessionsAreMonotonic ==
  [][/\ \A d \in Days :
          (att[d] # NoRec /\ att'[d] # NoRec) =>
            /\ Len(att'[d].sessions) >= Len(att[d].sessions)
            /\ \A i \in 1..Len(att[d].sessions) :
                 LET s == att[d].sessions[i]
                     t == att'[d].sessions[i]
                 IN /\ t.checkInTime = s.checkInTime
                    /\ s.checkOutTime # NoTime => t.checkOutTime = s.checkOutTime
                    /\ ~s.isActive => ~t.isActive
     /\ Len(ledger') >= Len(ledger)
     /\ \A i \in 1..Len(ledger) :
          /\ ledger'[i].checkInTime = ledger[i].checkInTime
          /\ ledger'[i].date = ledger[i].date
          /\ ~ledger[i].isActive => ~ledger'[i].isActive]_vars


\* a Day Record with two sessions closed at different times: the second was
\* opened and closed, by a stop, check-out or force-stop, after the first
C23_Witness ==
  \E d \in Days :
    /\ att[d] # NoRec
    /\ Len(att[d].sessions) = 2
    /\ \A i \in 1..2 : ~att[d].sessions[i].isActive
    /\ att[d].sessions[1].checkOutTime # NoTime
    /\ att[d].sessions[2].checkOutTime > att[d].sessions[1].checkOutTime
    /\ att[d].forceStopped


\* C24: after a successful Stop the hours of the closed ledger session are the
\* elapsed time from its check-in timestamp to the stop, to 4 decimals, and
\* the Day Record's sessionHours of the session closed with it is the same
\* number.
C24_BothStoresSameDuration ==
  [][(last'.ep = "stopSession" /\ last'.pre = "active" /\ last'.code = 200)
       => LET ex == FindActive(ledger, today)
              i == IF att[today] = NoRec THEN 0
                   ELSE FirstActive(att[today].sessions)
          IN /\ ledger'[ex].totalHours
                  = Round4(ElapsedHours(now - ledger[ex].checkInTime))
             /\ i # 0 => att'[today].sessions[i].sessionHours
                           = ledger'[ex].totalHours]_vars


\* C25: whenever a Day Record has at least one session, its record-level
\* checkInTime is the first session's checkInTime and its record-level
\* checkOutTime the last session's checkOutTime (none while that is open).
C25_RecordTimesMirrorSessions ==
  \A d \in Days :
    (att[d] # NoRec /\ att[d].sessions # <<>>) =>
      /\ att[d].checkInTime = att[d].sessions[1].checkInTime
      /\ att[d].checkOutTime
           = att[d].sessions[Len(att[d].sessions)].checkOutTime


\* C26: an edit of a Day Record that changes neither its check-in time nor
\* its status present (notes or the check-out time only, say) leaves isLate
\* and lateMinutes as they were; lateness changes only when the check-in
\* time changes.
C26_EditKeepsLateness ==
  [][\A d \in Days :
       (/\ last'.ep \in {"attendance/user-edit", "attendance/edit"}
        /\ last'.code = 200
        /\ att[d] # NoRec /\ att'[d] # NoRec
        /\ att[d].status = "present" /\ att'[d].status = "present"
        /\ att'[d].checkInTime = att[d].checkInTime)
       => /\ att'[d].isLate = att[d].isLate
          /\ att'[d].lateMinutes = att[d].lateMinutes]_vars


\* C27: between operations the two stores agree: the ledger holds a session
\* with isActive = true for a date if and only if the Day Record of that
\* date exists and holds a session with isActive = true.
C27_StoresAgreeOnActive ==
  \A d \in Days :
    (\E i \in 1..Len(ledger) : ledger[i].date = d /\ ledger[i].isActive)
      <=> (att[d] # NoRec /\ Active(att[d].sessions) # {})


\* C28: a session opened by Start is closed by the user's next Stop, also
\* after the date has rolled over: a Stop request of the user that finds the
\* ledger with an active session leaves it with none, and the ledger never
\* holds active sessions of the user on two different dates.
C28_NextStopClosesSession ==
  [][/\ (last'.ep \in StopEps /\ last'.pre # "invalid"
           /\ \E i \in 1..Len(ledger) : ledger[i].isActive)
        => \A i \in 1..Len(ledger') : ~ledger'[i].isActive
     /\ \A i, j \in 1..Len(ledger') :
          (ledger'[i].isActive /\ ledger'[j].isActive)
            => ledger'[i].date = ledger'[j].date]_vars


\* C29: for every Start and Stop entry point an error response implies that
\* the request changed no stored state: a request that opened or closed a
\* session in either store answers with success.
C29_ErrorMeansNoChange ==
  [][(last'.ep \in StartEps \cup StopEps /\ last'.code \in 400..599)
       => (ledger' = ledger /\ att' = att)]_vars


\* C30: a Day Record's record-level isActive flag is true if and only if at
\* least one of its sessions has isActive = true, for every value of the
\* owner's hourly rate.
C30_RecordActiveIffSessionActive ==
  \A d \in Days :
    att[d] # NoRec => (att[d].isActive <=> Active(att[d].sessions) # {})

====
